---- MODULE Spec2Model ----
(***************************************************************************)
(* scripts/calculate_extents.py: get_extents and the __main__ block.       *)
(*                                                                         *)
(* Coordinates are floating-point degrees in the program.  Here they are   *)
(* fixed-point numbers counted in half degrees (Deg(1) = 2 units), so that *)
(* a pixel size of 0.5 degree is the unit 1.  The raster library (gdal,    *)
(* osr) is the environment: the dataset found at the path and the          *)
(* behaviour of TransformPoint are chosen in Init and at each call.        *)
(***************************************************************************)
EXTENDS Integers, Sequences, FiniteSets, TLC

VARIABLES
    argc,           \* len(sys.argv)
    dataset,        \* what gdal.Open finds at the path
    xform,          \* behaviour of the CoordinateTransformation objects
    pc,             \* position in the program
    is_geographic,  \* src_srs.IsGeographic()
    branch,         \* "none", "gcp" or "geotransform"
    corners,        \* the four synthesized corners (geotransform branch)
    geo_corners,    \* the reprojected points
    i,              \* index of the next point of the running loop
    last,           \* the TransformPoint outcomes of the last point processed
    extents,        \* the dict built at lines 189-194
    err,            \* the exception in flight (or the last one raised)
    stdout,         \* lines printed to standard output
    stderr,         \* lines printed to standard error
    exit_code       \* process exit status, -1 while running

vars == <<argc, dataset, xform, pc, is_geographic, branch, corners,
          geo_corners, i, last, extents, err, stdout, stderr, exit_code>>

----------------------------------------------------------------------------
(* Numbers *)

\* a whole number of degrees as a fixed-point value (half-degree units)
Deg(d) == d * 2

\* the half-degree pixel size 0.5
Half == Deg(1) \div 2

Min2(a, b) == IF a <= b THEN a ELSE b
Max2(a, b) == IF a >= b THEN a ELSE b

RECURSIVE SeqMax(_)
SeqMax(s) == IF Len(s) = 1 THEN s[1] ELSE Max2(s[1], SeqMax(Tail(s)))

RECURSIVE SeqMin(_)
SeqMin(s) == IF Len(s) = 1 THEN s[1] ELSE Min2(s[1], SeqMin(Tail(s)))

----------------------------------------------------------------------------
(* Bounds of the model *)

\* longest ground-control-point list
MaxGCPs == 2

----------------------------------------------------------------------------
(* The environment: datasets and transforms *)

\* ds.GetGeoTransform() of an ungeoreferenced raster
DefaultGeoTransform == <<0, Deg(1), 0, 0, 0, Deg(1)>>

\* geotransform (10.0, 0.5, 0.0, 50.0, 0.0, -0.5)
ExampleGeoTransform == <<Deg(10), Half, 0, Deg(50), 0, -Half>>

GeoTransforms ==
    { DefaultGeoTransform,
      ExampleGeoTransform,
      <<Deg(10), Half, 0, Deg(50), 0, Half>>,        \* south-up raster
      <<Deg(10), -Half, 0, Deg(50), 0, -Half>>,      \* negative pixel width
      <<Deg(10), Half, 1, -Deg(50), 0, -Half>>,      \* rotation term, y below -90
      <<0, Deg(1), 1, 0, 0, Deg(1)>> }               \* default but for a rotation

RasterSizes == {0, 100, 400}

\* georeferenced coordinates a ground-control point can carry (GCPX, GCPY)
GCPPoints == { <<Deg(10), Deg(50)>>, <<Deg(50), Deg(100)>>, <<Deg(20), Deg(20)>> }

RECURSIVE SeqsUpTo(_, _)
SeqsUpTo(S, n) ==
    IF n = 0 THEN { <<>> }
    ELSE LET shorter == SeqsUpTo(S, n - 1)
         IN  shorter \cup { Append(s, e) : s \in { t \in shorter : Len(t) = n - 1 }, e \in S }

GCPLists == SeqsUpTo(GCPPoints, MaxGCPs)

\* ds.GetProjection(): empty, a geographic WKT, a projected WKT, or text
\* that ImportFromWkt rejects
Projections == {"", "GEOGCS", "PROJCS", "BAD"}

\* ds.GetGCPProjection()
GCPProjections == {"", "GEOGCS", "BAD"}

Datasets ==
    \* rasters with a geotransform and no ground-control points
    [ openable : {TRUE},
      projection : {"", "PROJCS"},
      gcp_projection : {""},
      geotransform : GeoTransforms,
      x_size : RasterSizes,
      y_size : {0, 100},
      gcps : { <<>> } ]
    \cup
    \* every kind of projection text
    [ openable : {TRUE},
      projection : Projections,
      gcp_projection : {""},
      geotransform : {ExampleGeoTransform},
      x_size : {100},
      y_size : {100},
      gcps : { <<>> } ]
    \cup
    \* rasters with ground-control points
    [ openable : {TRUE},
      projection : {"", "PROJCS"},
      gcp_projection : GCPProjections,
      geotransform : {DefaultGeoTransform, ExampleGeoTransform},
      x_size : {100},
      y_size : {100},
      gcps : GCPLists \ { <<>> } ]
    \cup
    \* a path gdal.Open cannot open
    [ openable : {FALSE},
      projection : {""},
      gcp_projection : {""},
      geotransform : {DefaultGeoTransform},
      x_size : {0},
      y_size : {0},
      gcps : { <<>> } ]

\* a TransformPoint call that raises
Raise == <<>>

\* results a transform double returns whatever its input
DoubleResults == { <<Deg(200), Deg(100)>> }

\* what transform.TransformPoint(a, b) can do: under the identity
\* reprojection it returns its input; a transform double raises, returns
\* its input, returns it with the axes exchanged, or returns a fixed point.
\* Within one loop iteration TransformPoint is a function of its arguments
\* (a repeated call does what the first call did); across iterations the
\* outcomes are chosen independently.
Outcomes(kind, a, b) ==
    IF kind = "identity" THEN { <<a, b>> }
    ELSE { Raise, <<a, b>>, <<b, a>> } \cup DoubleResults

----------------------------------------------------------------------------
(* Pure parts of get_extents *)

\* -90 <= lat <= 90 and -180 <= lon <= 180
InRange(lon, lat) ==
    /\ -Deg(90) <= lat /\ lat <= Deg(90)
    /\ -Deg(180) <= lon /\ lon <= Deg(180)

\* is_default_geotransform
IsDefaultGeoTransform(gt) ==
    /\ gt[1] = 0 /\ gt[2] = Deg(1)
    /\ gt[3] = 0 /\ gt[4] = 0
    /\ gt[5] = 0 /\ gt[6] = Deg(1)

UseGCPsOffByOne(ds) == IsDefaultGeoTransform(ds.geotransform) /\ Len(ds.gcps) > 1

\* the condition of line 79
UseGCPs(ds) == IsDefaultGeoTransform(ds.geotransform) /\ Len(ds.gcps) > 0

CornersOfPixelCentres(gt, x_size, y_size) ==
    LET x_min0 == gt[1]
        x_max0 == gt[1] + (x_size - 1) * gt[2]
        y_min0 == gt[4] + (y_size - 1) * gt[6]
        y_max0 == gt[4]
        y_min == Min2(y_min0, y_max0)
        y_max == Max2(y_min0, y_max0)
        x_min == Min2(x_min0, x_max0)
        x_max == Max2(x_min0, x_max0)
    IN  << <<x_min, y_max>>, <<x_max, y_max>>, <<x_max, y_min>>, <<x_min, y_min>> >>

\* the four corners in source coordinates, after the two swaps
CornersOf(gt, x_size, y_size) ==
    LET x_origin == gt[1]
        pixel_width == gt[2]
        y_origin == gt[4]
        pixel_height == gt[6]
        x_min0 == x_origin
        x_max0 == x_origin + x_size * pixel_width
        y_min0 == y_origin + y_size * pixel_height
        y_max0 == y_origin
        y_min == IF y_min0 > y_max0 THEN y_max0 ELSE y_min0
        y_max == IF y_min0 > y_max0 THEN y_min0 ELSE y_max0
        x_min == IF x_min0 > x_max0 THEN x_max0 ELSE x_min0
        x_max == IF x_min0 > x_max0 THEN x_min0 ELSE x_max0
    IN  << <<x_min, y_max>>,     \* top-left
           <<x_max, y_max>>,     \* top-right
           <<x_max, y_min>>,     \* bottom-right
           <<x_min, y_min>> >>   \* bottom-left

\* `lat, lon, _ = TransformPoint(y, x)` followed by append((lon, lat))
Flip(r) == <<r[2], r[1]>>

GeoChainNoFlip(nat, swp) ==
    IF nat # Raise
    THEN IF InRange(nat[1], nat[2]) THEN nat
         ELSE IF swp # Raise THEN swp ELSE nat
    ELSE IF swp # Raise THEN swp ELSE Raise

\* the fallback chain of a corner under a geographic source (lines 149-167);
\* nat is what TransformPoint(x, y) does, swp what TransformPoint(y, x) does.
\* The result is the point appended, or Raise when the chain itself raises.
GeoChain(nat, swp) ==
    IF nat # Raise
    THEN IF InRange(nat[1], nat[2])
         THEN nat                               \* line 154
         ELSE IF swp # Raise
              THEN Flip(swp)                    \* lines 157-158
              ELSE nat                          \* 157 and 162 raise; 166-167
    ELSE IF swp # Raise
         THEN Flip(swp)                         \* lines 162-163
         ELSE Raise                             \* line 166 raises again

\* the fallback chain of a corner under a projected source (lines 171-182)
ProjChain(nat, swp) ==
    IF nat # Raise THEN nat                     \* lines 172-173
    ELSE IF swp # Raise THEN swp                \* lines 177-178
    ELSE Raise                                  \* line 181 raises again

GcpChainKeepNatural(nat, swp, x, y) ==
    IF nat # Raise THEN nat
    ELSE IF swp # Raise THEN Flip(swp) ELSE <<x, y>>

\* the fallback chain of a ground-control point (lines 96-113)
GcpChain(nat, swp, x, y) ==
    IF nat # Raise
    THEN IF InRange(nat[1], nat[2])
         THEN nat                               \* line 101
         ELSE IF swp # Raise
              THEN Flip(swp)                    \* lines 104-105
              ELSE <<x, y>>                     \* 104 and 109 raise; 113
    ELSE IF swp # Raise
         THEN Flip(swp)                         \* lines 109-110
         ELSE <<x, y>>                          \* line 113

Lons(pts) == [k \in 1..Len(pts) |-> pts[k][1]]
Lats(pts) == [k \in 1..Len(pts) |-> pts[k][2]]

ExtentsOfCrossed(pts) ==
    [ north |-> SeqMax(Lons(pts)), south |-> SeqMin(Lats(pts)),
      east  |-> SeqMax(Lats(pts)), west  |-> SeqMin(Lons(pts)) ]

\* lines 185-194
ExtentsOf(pts) ==
    [ north |-> SeqMax(Lats(pts)), south |-> SeqMin(Lats(pts)),
      east  |-> SeqMax(Lons(pts)), west  |-> SeqMin(Lons(pts)) ]

ReraiseUnwrapped(e) == e

\* line 199: raise Exception(f"Error calculating extents: {str(e)}")
WrapError(e) ==
    [ kind |-> "Exception", msg |-> <<"Error calculating extents: ">> \o e.msg ]

\* line 30
OpenError == [ kind |-> "Exception", msg |-> <<"Unable to open dataset at ">> ]

\* an exception raised by the raster library
LibraryError(what) == [ kind |-> "RuntimeError", msg |-> <<what>> ]

NoError == [ kind |-> "none", msg |-> <<>> ]

NoExtents == [ north |-> 0, south |-> 0, east |-> 0, west |-> 0 ]

NoCall == [ chain |-> "none", x |-> 0, y |-> 0, nat |-> Raise, swp |-> Raise, rec |-> Raise ]

UsageErrorTooFew(n) == n < 2

\* line 204
UsageError(n) == n # 2

UsageLine == <<"Usage: python3 calculate_extents.py <dataset_path>">>

ErrorLineBare(e) == e.msg

\* line 212: f"ERROR: {str(e)}"
ErrorLine(e) == <<"ERROR: ">> \o e.msg

\* line 210: json.dumps(extents)
JsonLine(x) == <<"json", x>>

----------------------------------------------------------------------------
(* The program *)

Init ==
    /\ argc \in {1, 2, 3}
    /\ dataset \in Datasets
    /\ xform \in {"identity", "double"}
    /\ pc = "start"
    /\ is_geographic = FALSE
    /\ branch = "none"
    /\ corners = <<>>
    /\ geo_corners = <<>>
    /\ i = 1
    /\ last = NoCall
    /\ extents = NoExtents
    /\ err = NoError
    /\ stdout = <<>>
    /\ stderr = <<>>
    /\ exit_code = -1

\* lines 203-208: the argument count test and the call of get_extents
Main ==
    /\ pc = "start"
    /\ IF UsageError(argc)
       THEN /\ stderr' = Append(stderr, UsageLine)
            /\ exit_code' = 1
            /\ pc' = "exited"
       ELSE /\ pc' = "open"
            /\ UNCHANGED <<stderr, exit_code>>
    /\ UNCHANGED <<argc, dataset, xform, is_geographic, branch, corners,
                   geo_corners, i, last, extents, err, stdout>>

\* lines 28-30, and line 199 when the handle is None
Open ==
    /\ pc = "open"
    /\ IF dataset.openable
       THEN pc' = "setup" /\ UNCHANGED err
       ELSE pc' = "raised" /\ err' = WrapError(OpenError)
    /\ UNCHANGED <<argc, dataset, xform, is_geographic, branch, corners,
                   geo_corners, i, last, extents, stdout, stderr, exit_code>>

\* lines 33-76: reference systems, transform, raster size, geotransform, GCPs
Setup ==
    /\ pc = "setup"
    /\ IF dataset.projection = "BAD"
       THEN /\ pc' = "raised"
            /\ err' = WrapError(LibraryError("ImportFromWkt"))
            /\ UNCHANGED is_geographic
       ELSE /\ pc' = "branch"
            /\ is_geographic' = (dataset.projection # "PROJCS")
            /\ UNCHANGED err
    /\ UNCHANGED <<argc, dataset, xform, branch, corners, geo_corners, i, last,
                   extents, stdout, stderr, exit_code>>

\* lines 79-93: the GCP branch is taken and its transform is built
PrepareGCPs ==
    /\ pc = "branch"
    /\ UseGCPs(dataset)
    /\ branch' = "gcp"
    /\ IF dataset.gcp_projection = "BAD"
       THEN /\ pc' = "raised"
            /\ err' = WrapError(LibraryError("ImportFromWkt"))
       ELSE /\ pc' = "gcp_loop"
            /\ UNCHANGED err
    /\ geo_corners' = <<>>
    /\ i' = 1
    /\ UNCHANGED <<argc, dataset, xform, is_geographic, corners, last, extents,
                   stdout, stderr, exit_code>>

\* lines 114-143: the geotransform branch is taken and the corners are built
SynthesizeCorners ==
    /\ pc = "branch"
    /\ ~UseGCPs(dataset)
    /\ branch' = "geotransform"
    /\ corners' = CornersOf(dataset.geotransform, dataset.x_size, dataset.y_size)
    /\ geo_corners' = <<>>
    /\ i' = 1
    /\ pc' = "corner_loop"
    /\ UNCHANGED <<argc, dataset, xform, is_geographic, last, extents, err,
                   stdout, stderr, exit_code>>

\* lines 94-113: one iteration of the loop over the GCPs
GcpStep ==
    /\ pc = "gcp_loop"
    /\ i <= Len(dataset.gcps)
    /\ LET x == dataset.gcps[i][1]
           y == dataset.gcps[i][2]
       IN  \E nat \in Outcomes(xform, x, y), swp \in Outcomes(xform, y, x) :
             /\ (x = y) => (nat = swp)
             /\ LET rec == GcpChain(nat, swp, x, y)
                IN  /\ geo_corners' = Append(geo_corners, rec)
                    /\ last' = [ chain |-> "gcp", x |-> x, y |-> y,
                                 nat |-> nat, swp |-> swp, rec |-> rec ]
    /\ i' = i + 1
    /\ pc' = IF i + 1 > Len(dataset.gcps) THEN "reduce" ELSE "gcp_loop"
    /\ UNCHANGED <<argc, dataset, xform, is_geographic, branch, corners,
                   extents, err, stdout, stderr, exit_code>>

\* lines 144-182: one iteration of the loop over the corners
CornerStep ==
    /\ pc = "corner_loop"
    /\ i <= Len(corners)
    /\ LET x == corners[i][1]
           y == corners[i][2]
       IN  \E nat \in Outcomes(xform, x, y), swp \in Outcomes(xform, y, x) :
             /\ (x = y) => (nat = swp)
             /\ LET rec == IF is_geographic THEN GeoChain(nat, swp)
                                            ELSE ProjChain(nat, swp)
                IN  /\ last' = [ chain |-> IF is_geographic THEN "geographic"
                                                            ELSE "projected",
                                 x |-> x, y |-> y,
                                 nat |-> nat, swp |-> swp, rec |-> rec ]
                    /\ IF rec = Raise
                       THEN /\ pc' = "raised"
                            /\ err' = WrapError(LibraryError("TransformPoint"))
                            /\ UNCHANGED <<geo_corners, i>>
                       ELSE /\ geo_corners' = Append(geo_corners, rec)
                            /\ i' = i + 1
                            /\ pc' = IF i + 1 > Len(corners) THEN "reduce"
                                                             ELSE "corner_loop"
                            /\ UNCHANGED err
    /\ UNCHANGED <<argc, dataset, xform, is_geographic, branch, corners,
                   extents, stdout, stderr, exit_code>>

\* lines 185-196: the reduction and the return
Reduce ==
    /\ pc = "reduce"
    /\ extents' = ExtentsOf(geo_corners)
    /\ pc' = "returned"
    /\ UNCHANGED <<argc, dataset, xform, is_geographic, branch, corners,
                   geo_corners, i, last, err, stdout, stderr, exit_code>>

\* line 210, and the normal end of the script
PrintJson ==
    /\ pc = "returned"
    /\ stdout' = Append(stdout, JsonLine(extents))
    /\ exit_code' = 0
    /\ pc' = "exited"
    /\ UNCHANGED <<argc, dataset, xform, is_geographic, branch, corners,
                   geo_corners, i, last, extents, err, stderr>>

\* lines 211-213
ReportError ==
    /\ pc = "raised"
    /\ stderr' = Append(stderr, ErrorLine(err))
    /\ exit_code' = 1
    /\ pc' = "exited"
    /\ UNCHANGED <<argc, dataset, xform, is_geographic, branch, corners,
                   geo_corners, i, last, extents, err, stdout>>

Next ==
    \/ Main
    \/ Open
    \/ Setup
    \/ PrepareGCPs
    \/ SynthesizeCorners
    \/ GcpStep
    \/ CornerStep
    \/ Reduce
    \/ PrintJson
    \/ ReportError

Spec == Init /\ [][Next]_vars

----------------------------------------------------------------------------
(* Properties *)

GT == dataset.geotransform

\* get_extents has returned an extent
Returned == pc = "returned" \/ (pc = "exited" /\ exit_code = 0)

\* the natural-order call of the last point returned a point out of range
NatOutOfRange == last.nat # Raise /\ ~InRange(last.nat[1], last.nat[2])

\* an ordering of the last point gave a valid longitude/latitude pair
NatValid == last.nat # Raise /\ InRange(last.nat[1], last.nat[2])
SwpValid == last.swp # Raise /\ InRange(last.swp[2], last.swp[1])

\* e is the maximum (minimum) of the values of the sequence vs
IsMaxOf(e, vs) == (\E k \in 1..Len(vs) : vs[k] = e) /\ (\A k \in 1..Len(vs) : vs[k] <= e)
IsMinOf(e, vs) == (\E k \in 1..Len(vs) : vs[k] = e) /\ (\A k \in 1..Len(vs) : vs[k] >= e)

\* C1: geotransform branch under the identity reprojection of a geographic
\* source, non-default geotransform, no GCPs: the returned extent is
\* west/east = min/max of x_origin and x_origin + width*pixel_width,
\* south/north = min/max of y_origin and y_origin + height*pixel_height,
\* whatever the signs of the pixel sizes and also when a corner is out of
\* the lon/lat range; the example (10, 0.5, 0, 50, 0, -0.5), 100x100 gives
\* west 10, east 60, north 50, south 0.
C1_GeotransformExtent ==
    (/\ Returned
     /\ xform = "identity"
     /\ is_geographic
     /\ dataset.gcps = <<>>
     /\ ~IsDefaultGeoTransform(GT))
    => LET xa == GT[1]
           xb == GT[1] + dataset.x_size * GT[2]
           ya == GT[4]
           yb == GT[4] + dataset.y_size * GT[6]
       IN  /\ extents.west = Min2(xa, xb)
           /\ extents.east = Max2(xa, xb)
           /\ extents.south = Min2(ya, yb)
           /\ extents.north = Max2(ya, yb)
           /\ (GT = ExampleGeoTransform /\ dataset.x_size = 100 /\ dataset.y_size = 100)
              => extents = [ west |-> Deg(10), east |-> Deg(60),
                             north |-> Deg(50), south |-> 0 ]

\* a run of C1 in which the last corner took the swapped-order retry
C1_Witness ==
    /\ pc = "returned"
    /\ xform = "identity"
    /\ is_geographic
    /\ dataset.gcps = <<>>
    /\ ~IsDefaultGeoTransform(GT)
    /\ GT[6] < 0
    /\ NatOutOfRange
    /\ last.rec = Flip(last.swp)
    /\ extents.south = GT[4] + dataset.y_size * GT[6]

\* C2: default geotransform and a nonempty GCP list: the GCP branch runs,
\* every iteration adds one point, the point list ends as long as the GCP
\* list, the extent is the min/max of the latitudes and longitudes of
\* exactly those points, and no corner is synthesized.
C2_GcpExtent ==
    /\ (IsDefaultGeoTransform(GT) /\ dataset.gcps # <<>> /\ branch # "none")
       => /\ branch = "gcp"
          /\ corners = <<>>
          /\ Len(geo_corners) = i - 1
          /\ Len(geo_corners) <= Len(dataset.gcps)
    /\ (IsDefaultGeoTransform(GT) /\ dataset.gcps # <<>> /\ Returned)
       => /\ Len(geo_corners) = Len(dataset.gcps)
          /\ IsMaxOf(extents.north, Lats(geo_corners))
          /\ IsMinOf(extents.south, Lats(geo_corners))
          /\ IsMaxOf(extents.east, Lons(geo_corners))
          /\ IsMinOf(extents.west, Lons(geo_corners))

\* a finished GCP run over two GCPs whose last point is the raw GCP pair
C2_Witness ==
    /\ pc = "returned"
    /\ branch = "gcp"
    /\ Len(dataset.gcps) = 2
    /\ Len(geo_corners) = 2
    /\ last.nat = Raise /\ last.swp = Raise
    /\ geo_corners[2] = dataset.gcps[2]

\* C3 as stated: for a point of a geographic source (and every GCP), when
\* the natural-order result is out of range the recorded point is the
\* swapped-order result, and when either ordering gives a valid pair the
\* recorded point is in range.
C3_Original ==
    (last.chain \in {"geographic", "gcp"})
    => /\ NatOutOfRange => (last.swp # Raise /\ last.rec = Flip(last.swp))
       /\ (NatValid \/ SwpValid)
          => (last.rec # Raise /\ InRange(last.rec[1], last.rec[2]))

\* C3 amended: when the natural-order result is out of range, the recorded
\* point is the swapped-order result if the swapped call returns; if the
\* swapped call raises, it is the natural-order result (geotransform
\* branch) or the raw GCP pair (GCP branch).  When either ordering gives a
\* valid pair the recorded point is in range.
C3_AxisOrderFallback ==
    (last.chain \in {"geographic", "gcp"})
    => /\ (NatOutOfRange /\ last.swp # Raise) => last.rec = Flip(last.swp)
       /\ (NatOutOfRange /\ last.swp = Raise)
          => last.rec = (IF last.chain = "gcp" THEN <<last.x, last.y>> ELSE last.nat)
       /\ (NatValid \/ SwpValid)
          => (last.rec # Raise /\ InRange(last.rec[1], last.rec[2]))

\* a corner of a geographic source whose natural order is out of range and
\* whose swapped order is recorded, in range
C3_Witness ==
    /\ last.chain = "geographic"
    /\ NatOutOfRange
    /\ SwpValid
    /\ last.rec = Flip(last.swp)
    /\ InRange(last.rec[1], last.rec[2])
    /\ Len(geo_corners) >= 1
    /\ geo_corners[Len(geo_corners)] = last.rec

\* C4: whatever the transform calls of a point do, its fallback chain
\* appends a point and no exception of a per-point call leaves get_extents.
C4_PerPointNeverRaises ==
    /\ (last.chain # "none") => last.rec # Raise
    /\ (pc = "raised") => last.chain = "none"

C6_NoGeoreferencingFails ==
    (IsDefaultGeoTransform(GT) /\ dataset.gcps = <<>>) => ~Returned

\* C7: a returned extent has north >= south and east >= west, and the
\* reduction runs on a nonempty list: the GCP branch holds one point per
\* GCP of a nonempty list, the geotransform branch four points.
C7_ExtentOrdered ==
    /\ Returned => (extents.north >= extents.south /\ extents.east >= extents.west)
    /\ (pc = "reduce")
       => /\ Len(geo_corners) >= 1
          /\ (branch = "gcp")
             => (Len(dataset.gcps) >= 1 /\ Len(geo_corners) = Len(dataset.gcps))
          /\ (branch = "geotransform") => Len(geo_corners) = 4
          /\ branch \in {"gcp", "geotransform"}

\* a returned GCP extent whose last point came from the swapped retry
\* after the natural order raised
C7_Witness ==
    /\ pc = "returned"
    /\ branch = "gcp"
    /\ last.nat = Raise
    /\ last.swp # Raise
    /\ extents.north > extents.south
    /\ extents.east > extents.west

\* the kind of the error a failed reprojection surfaces as
ComputationErrorKind == WrapError(LibraryError("TransformPoint")).kind

\* C8 as stated: the error of an open failure differs in kind from the
\* error of the other failures.
C8_Original ==
    (pc = "raised" /\ ~dataset.openable) => err.kind # ComputationErrorKind

\* C8 amended: every failure of get_extents, the open failure included,
\* surfaces as the same kind, Exception, with the message prefix
\* "Error calculating extents: "; the open failure differs from the others
\* only in the wrapped text "Unable to open dataset at <path>".
C8_OpenErrorByMessage ==
    (pc \in {"raised", "exited"} /\ argc = 2 /\ err # NoError)
    => /\ err.kind = "Exception"
       /\ err.msg[1] = "Error calculating extents: "
       /\ (~dataset.openable) <=> (err.msg = <<"Error calculating extents: ">> \o OpenError.msg)
       /\ (~dataset.openable) <=> (Len(err.msg) = 2 /\ err.msg[2] = "Unable to open dataset at ")

\* the open failure has been raised
C8_Witness ==
    /\ pc = "raised"
    /\ ~dataset.openable
    /\ err.kind = "Exception"
    /\ err.msg = <<"Error calculating extents: ", "Unable to open dataset at ">>

\* C9: in the geotransform branch there are always four corners; with
\* width 0 the left and right corners coincide, with height 0 the top and
\* bottom corners coincide, with both all four are the origin; the
\* synthesis itself never raises.
C9_ZeroSizeCorners ==
    (branch = "geotransform")
    => /\ Len(corners) = 4
       /\ (dataset.x_size = 0)
          => (corners[1] = corners[2] /\ corners[4] = corners[3]
              /\ corners[1][1] = GT[1])
       /\ (dataset.y_size = 0)
          => (corners[1] = corners[4] /\ corners[2] = corners[3]
              /\ corners[1][2] = GT[4])
       /\ (dataset.x_size = 0 /\ dataset.y_size = 0)
          => \A k \in 1..4 : corners[k] = <<GT[1], GT[4]>>
       /\ (pc = "raised") => last.chain # "none"
       /\ (geo_corners = <<>> /\ last.chain = "none") => pc = "corner_loop"

\* corners of a raster of width 0 and height 100
C9_Witness ==
    /\ pc = "corner_loop"
    /\ branch = "geotransform"
    /\ dataset.x_size = 0
    /\ dataset.y_size = 100
    /\ corners[1] = corners[2]
    /\ corners[1] # corners[4]

\* C10: with an argument count other than one positional argument the
\* program writes the usage message to standard error, nothing to standard
\* output, never enters get_extents, prints no "ERROR: " line and exits 1.
C10_UsageError ==
    (argc # 2)
    => /\ pc \in {"start", "exited"}
       /\ branch = "none"
       /\ err = NoError
       /\ stdout = <<>>
       /\ (pc = "exited") => (stderr = <<UsageLine>> /\ exit_code = 1)
       /\ (pc = "start") => (stderr = <<>> /\ exit_code = -1)

\* the program has ended after being started with two positional arguments
C10_Witness ==
    /\ argc = 3
    /\ pc = "exited"
    /\ stderr = <<UsageLine>>
    /\ exit_code = 1

====
